---- MODULE Spec2Model ----
(***************************************************************************)
(* State-machine model of the AST node layer of src/src/ast.hpp: the       *)
(* Vectorized mixin (operator<<, operator+=, operator[]) with the          *)
(* adjust_after_pushing hooks of Block, Parameters, Arguments,             *)
(* Simple_Selector_Sequence and Selector_Group, and the constructor of     *)
(* Selector_Combination.                                                   *)
(*                                                                         *)
(* One node is under construction in a behaviour; Init chooses its class.  *)
(* A pointer is modelled as a sequence of length 0 (null) or 1 (pointee).  *)
(***************************************************************************)
EXTENDS Integers, Sequences, FiniteSets, TLC

VARIABLES
  node,      \* the node under construction (a record; node.cls is its class)
  lastOp,    \* the last operation performed on it and its arguments
  appended,  \* history: the elements passed to operator<<, in call order
  writes,    \* history: number of assignments through operator[]
  raised     \* the error the last operation raised to its caller

vars == <<node, lastOp, appended, writes, raised>>

(***************************************************************************)
(* Bounds of the model.                                                    *)
(***************************************************************************)
MaxLen == 3      \* longest element vector explored
MaxExt == 2      \* longest source vector handed to operator+=
MaxWrites == 1   \* assignments through operator[] per behaviour
MaxChain == 2    \* longest Selector_Combination chain explored

NULL == <<>>

(***************************************************************************)
(* Statements (elements of a Block).                                       *)
(***************************************************************************)
Statement(k) == [kind |-> k]

Ruleset == Statement("Ruleset")

Declaration == Statement("Declaration")

Comment == Statement("Comment")

Statements == {Ruleset, Declaration, Comment}

\* Statement::is_hoistable returns false; only Ruleset overrides it.
is_hoistable(s) == IF s.kind = "Ruleset" THEN TRUE ELSE FALSE

(***************************************************************************)
(* Parameter and Argument objects. Neither constructor rejects anything.   *)
(***************************************************************************)
Parameter(n, def, rest) ==
  [name |-> n, default_value |-> def, is_rest_parameter |-> rest]

RequiredParam == Parameter("$a", NULL, FALSE)

OptionalParam == Parameter("$b", <<"1px">>, FALSE)

RestParam == Parameter("$c", NULL, TRUE)

DefaultedRestParam == Parameter("$d", <<"1px">>, TRUE)

ParameterObjects == {RequiredParam, OptionalParam, RestParam, DefaultedRestParam}

Argument(val, n, rest) ==
  [value |-> val, name |-> n, is_rest_argument |-> rest]

PositionalArg == Argument("1px", "", FALSE)

NamedArg == Argument("1px", "$x", FALSE)

RestArg == Argument("$list", "", TRUE)

NamedRestArg == Argument("$list", "$x", TRUE)

ArgumentObjects == {PositionalArg, NamedArg, RestArg, NamedRestArg}

(***************************************************************************)
(* Simple selectors. Selector's constructor defaults both flags to false;  *)
(* Selector_Reference and Selector_Placeholder set one flag in their       *)
(* constructor body; Negated_Selector stores the wrapped selector and      *)
(* leaves both of its own flags at the default.                            *)
(***************************************************************************)
Simple_Selector(k) ==
  [kind |-> k, has_reference |-> FALSE, has_placeholder |-> FALSE,
   selector |-> NULL]

Selector_Reference ==
  [Simple_Selector("Selector_Reference") EXCEPT !.has_reference = TRUE]

Selector_Placeholder ==
  [Simple_Selector("Selector_Placeholder") EXCEPT !.has_placeholder = TRUE]

Type_Selector == Simple_Selector("Type_Selector")

Negated_Selector(sel) ==
  [Simple_Selector("Negated_Selector") EXCEPT !.selector = <<sel>>]

PlainSimpleSelectors == {Selector_Reference, Selector_Placeholder, Type_Selector}

\* The simple selectors appended to a Simple_Selector_Sequence.
SimpleSelectors ==
  {Selector_Reference, Selector_Placeholder, Negated_Selector(Selector_Reference)}

(***************************************************************************)
(* ADD_PROPERTY(type, name) declares the member name_ and its accessors.   *)
(* The getters below read the member of the static type they are called    *)
(* on: a class that re-declares a property hides the one of its base.      *)
(***************************************************************************)
has_reference(x) == x.has_reference

has_placeholder(x) == x.has_placeholder

default_value(p) == p.default_value

is_rest_parameter(p) == p.is_rest_parameter

name(a) == a.name

is_rest_argument(a) == a.is_rest_argument

(***************************************************************************)
(* Constructors of the nodes that are vectors. `hooked` is history: the    *)
(* arguments adjust_after_pushing was invoked with, in call order.         *)
(***************************************************************************)
Vectorized == [elements |-> <<>>, hooked |-> <<>>]

Block(r) ==
  [cls |-> "Block", elements |-> Vectorized.elements, hooked |-> Vectorized.hooked,
   is_root |-> r, has_hoistable |-> FALSE, has_non_hoistable |-> FALSE]

Parameters ==
  [cls |-> "Parameters", elements |-> Vectorized.elements,
   hooked |-> Vectorized.hooked,
   has_optional_parameters |-> FALSE, has_rest_parameter |-> FALSE]

Arguments ==
  [cls |-> "Arguments", elements |-> Vectorized.elements,
   hooked |-> Vectorized.hooked,
   has_named_arguments |-> FALSE, has_rest_argument |-> FALSE]

\* The flags are the members of the base class Selector.
Simple_Selector_Sequence ==
  [cls |-> "Simple_Selector_Sequence", elements |-> Vectorized.elements,
   hooked |-> Vectorized.hooked,
   has_reference |-> FALSE, has_placeholder |-> FALSE]

\* Selector_Group re-declares both flags; Selector_has_* are the hidden
\* members of the base class, has_* the members its own accessors read.
Selector_Group ==
  [cls |-> "Selector_Group", elements |-> Vectorized.elements,
   hooked |-> Vectorized.hooked,
   Selector_has_reference |-> FALSE, Selector_has_placeholder |-> FALSE,
   has_reference |-> FALSE, has_placeholder |-> FALSE]

(***************************************************************************)
(* The adjust_after_pushing hooks. No branch of any of them raises: the    *)
(* branches commented "error" in the source are empty statements.          *)
(***************************************************************************)
\* Variant: the else branch clears has_hoistable.
Mutant_Block_adjust_after_pushing(n, s) ==
  IF is_hoistable(s)
  THEN [n EXCEPT !.has_hoistable = TRUE]
  ELSE [n EXCEPT !.has_hoistable = FALSE]

Block_adjust_after_pushing(n, s) ==
  IF is_hoistable(s)
  THEN [n EXCEPT !.has_hoistable = TRUE]
  ELSE [n EXCEPT !.has_non_hoistable = FALSE]

\* Variant: a rest parameter after an optional one is dropped from the flags.
Mutant_Parameters_adjust_after_pushing(n, p) ==
  IF default_value(p) # NULL
  THEN [n EXCEPT !.has_optional_parameters = TRUE]
  ELSE IF is_rest_parameter(p) /\ ~n.has_optional_parameters
       THEN [n EXCEPT !.has_rest_parameter = TRUE]
       ELSE n

Parameters_adjust_after_pushing(n, p) ==
  IF default_value(p) # NULL
  THEN [n EXCEPT !.has_optional_parameters = TRUE]
  ELSE IF is_rest_parameter(p)
       THEN [n EXCEPT !.has_rest_parameter = TRUE]
       ELSE n

Arguments_adjust_after_pushing(n, a) ==
  IF name(a) # ""
  THEN [n EXCEPT !.has_named_arguments = TRUE]
  ELSE IF is_rest_argument(a)
       THEN [n EXCEPT !.has_rest_argument = TRUE]
       ELSE n

Simple_Selector_Sequence_adjust_after_pushing(n, s) ==
  [n EXCEPT !.has_reference = has_reference(n) \/ has_reference(s),
            !.has_placeholder = has_placeholder(n) \/ has_placeholder(s)]

Selector_Group_adjust_after_pushing(n, c) ==
  [n EXCEPT !.has_reference = @ \/ has_reference(c),
            !.has_placeholder = @ \/ has_placeholder(c)]

\* The virtual call made by operator<<, dispatched on the node's class.
adjust_after_pushing(n, element) ==
  LET m == [n EXCEPT !.hooked = Append(@, element)] IN
  CASE n.cls = "Block" -> Block_adjust_after_pushing(m, element)
    [] n.cls = "Parameters" -> Parameters_adjust_after_pushing(m, element)
    [] n.cls = "Arguments" -> Arguments_adjust_after_pushing(m, element)
    [] n.cls = "Simple_Selector_Sequence" ->
         Simple_Selector_Sequence_adjust_after_pushing(m, element)
    [] n.cls = "Selector_Group" -> Selector_Group_adjust_after_pushing(m, element)

(***************************************************************************)
(* Vectorized<T>.                                                          *)
(***************************************************************************)
length(n) == Len(n.elements)

empty(n) == n.elements = <<>>

\* operator[] with i < length(); C++ indices start at 0.
At(n, i) == n.elements[i + 1]

\* Variant: the element is inserted at the front.
Mutant_PushBack(n, element) ==
  adjust_after_pushing([n EXCEPT !.elements = <<element>> \o @], element)

\* operator<<
PushBack(n, element) ==
  adjust_after_pushing([n EXCEPT !.elements = Append(@, element)], element)

\* The loop of operator+= over a source vector v distinct from the target:
\* for (i = 0, L = v->length(); i < L; ++i) *this << (*v)[i];
RECURSIVE ExtendLoop(_, _, _, _)
ExtendLoop(n, v, i, L) ==
  IF i < L THEN ExtendLoop(PushBack(n, v[i + 1]), v, i + 1, L) ELSE n

\* Variant: the loop starts at index 1.
Mutant_PlusAssign(n, v) == ExtendLoop(n, v, 1, Len(v))

\* operator+=
PlusAssign(n, v) == ExtendLoop(n, v, 0, Len(v))

\* The loop of operator+= with v == this: L is read once, (*v)[i] is read
\* from the growing vector and copied into the by-value parameter of
\* operator<< before the push_back.
RECURSIVE SelfExtendLoop(_, _, _)
SelfExtendLoop(n, i, L) ==
  IF i < L THEN SelfExtendLoop(PushBack(n, At(n, i)), i + 1, L) ELSE n

\* Variant: the bound is read after the first push.
Mutant_PlusAssignSelf(n) ==
  IF empty(n) THEN n ELSE SelfExtendLoop(n, 0, length(n) + 1)

\* operator+= with v == this
PlusAssignSelf(n) == SelfExtendLoop(n, 0, length(n))

\* Variant: the old element is erased and the new one pushed at the end.
Mutant_AssignAt_Reorder(n, i, element) ==
  [n EXCEPT !.elements =
     SubSeq(@, 1, i) \o SubSeq(@, i + 2, Len(@)) \o <<element>>]

\* Variant: the assignment runs the hook.
Mutant_AssignAt_Hooked(n, i, element) ==
  adjust_after_pushing([n EXCEPT !.elements[i + 1] = element], element)

\* Assignment through the reference operator[] returns, with i < length().
AssignAt(n, i, element) == [n EXCEPT !.elements[i + 1] = element]

\* operator[] with i >= length() is vector::operator[] outside its range:
\* undefined behaviour. The call either ends the process or returns a
\* reference to storage outside the elements; no exception is thrown.
OutOfRangeOutcomes == {"none", "crash"}

(***************************************************************************)
(* Selector_Combination. Its constructor passes the OR of the head's and   *)
(* the tail's flags to the constructor of Selector, which stores them in   *)
(* Selector's members, Selector_has_reference/placeholder. It re-declares   *)
(* both properties; its own members, the ones its accessors read, appear   *)
(* in no initializer, so they hold indeterminate values, passed here as    *)
(* ur and up.                                                              *)
(***************************************************************************)
Combinators == {"ANCESTOR_OF", "PARENT_OF", "PRECEDES", "ADJACENT_TO"}

Selector_Combination(c, h, t, ur, up) ==
  [combinator |-> c, head |-> h, tail |-> t,
   Selector_has_reference |->
     (h # NULL /\ has_reference(h[1])) \/ (t # NULL /\ has_reference(t[1])),
   Selector_has_placeholder |->
     (h # NULL /\ has_placeholder(h[1])) \/ (t # NULL /\ has_placeholder(t[1])),
   has_reference |-> ur, has_placeholder |-> up]

\* A behaviour of class Parameter or Argument holds the pointer to the
\* object constructed (null before the construction).
ParameterPointer == [cls |-> "Parameter", object |-> NULL]

ArgumentPointer == [cls |-> "Argument", object |-> NULL]

\* A behaviour of class Selector_Combination holds the pointer to the chain
\* built so far (null before the first construction).
CombinationChain == [cls |-> "Selector_Combination", chain |-> NULL]

RECURSIVE ChainLength(_)
ChainLength(t) == IF t = NULL THEN 0 ELSE 1 + ChainLength(t[1].tail)

(***************************************************************************)
(* Inputs of the operations.                                               *)
(***************************************************************************)
VectorClasses ==
  {"Block", "Parameters", "Arguments", "Simple_Selector_Sequence", "Selector_Group"}

\* Head sequences handed to the constructor of Selector_Combination: null,
\* the empty sequence, and the sequences of one plain simple selector.
HeadSequences ==
  {Simple_Selector_Sequence}
    \cup {PushBack(Simple_Selector_Sequence, s) : s \in PlainSimpleSelectors}

Heads == {NULL} \cup {<<h>> : h \in HeadSequences}

ChainCombinators == {"ANCESTOR_OF", "PARENT_OF"}

\* Combinations appended to a Selector_Group: the combination with null
\* head and tail, with every value its own flags may hold.
GroupCombinations ==
  {Selector_Combination("ANCESTOR_OF", NULL, NULL, ur, up) :
     ur \in BOOLEAN, up \in BOOLEAN}

\* Parameters and arguments appended to their lists.
ListParameters == {RequiredParam, OptionalParam, RestParam}

ListArguments == {PositionalArg, NamedArg, RestArg}

ElementsOf(cls) ==
  CASE cls = "Block" -> Statements
    [] cls = "Parameters" -> ListParameters
    [] cls = "Arguments" -> ListArguments
    [] cls = "Simple_Selector_Sequence" -> SimpleSelectors
    [] cls = "Selector_Group" -> GroupCombinations

SourceVectors(cls) ==
  UNION {[1..k -> ElementsOf(cls)] : k \in 0..MaxExt}

(***************************************************************************)
(* The state machine.                                                      *)
(***************************************************************************)
Op(o, args, i) == [op |-> o, args |-> args, idx |-> i]

Init ==
  /\ node \in {Block(r) : r \in BOOLEAN}
                \cup {Parameters, Arguments, Simple_Selector_Sequence,
                      Selector_Group, CombinationChain,
                      ParameterPointer, ArgumentPointer}
  /\ lastOp = Op("new", <<>>, 0)
  /\ appended = <<>>
  /\ writes = 0
  /\ raised = "none"

\* A process ended by undefined behaviour performs no further operation.
Running == raised # "crash"

\* node << element
AppendOp ==
  /\ Running
  /\ node.cls \in VectorClasses
  /\ length(node) < MaxLen
  /\ \E element \in ElementsOf(node.cls) :
       /\ node' = PushBack(node, element)
       /\ lastOp' = Op("append", <<element>>, 0)
       /\ appended' = Append(appended, element)
  /\ raised' = "none"
  /\ UNCHANGED writes

\* node += v, v another vector than node
ExtendOp ==
  /\ Running
  /\ node.cls \in VectorClasses
  /\ \E v \in SourceVectors(node.cls) :
       /\ length(node) + Len(v) <= MaxLen
       /\ node' = PlusAssign(node, v)
       /\ lastOp' = Op("extend", v, 0)
       /\ appended' = appended \o v
  /\ raised' = "none"
  /\ UNCHANGED writes

\* node[i] = element, with i < node.length()
WriteOp ==
  /\ Running
  /\ node.cls \in VectorClasses
  /\ writes < MaxWrites
  /\ \E i \in 0..(length(node) - 1), element \in ElementsOf(node.cls) :
       /\ node' = AssignAt(node, i, element)
       /\ lastOp' = Op("write", <<element>>, i)
  /\ writes' = writes + 1
  /\ raised' = "none"
  /\ UNCHANGED appended

\* node += node; the source holds at most MaxExt elements
SelfExtendOp ==
  /\ Running
  /\ node.cls \in VectorClasses
  /\ length(node) <= MaxExt
  /\ node' = PlusAssignSelf(node)
  /\ lastOp' = Op("self_extend", node.elements, 0)
  /\ appended' = appended \o node.elements
  /\ raised' = "none"
  /\ UNCHANGED writes

\* x = node[i], with i < node.length()
ReadOp ==
  /\ Running
  /\ node.cls \in VectorClasses
  /\ \E i \in 0..(length(node) - 1) :
       lastOp' = Op("read", <<At(node, i)>>, i)
  /\ raised' = "none"
  /\ UNCHANGED <<node, appended, writes>>

\* node[i] with i = node.length(), the first index out of range, the
\* reference then read or assigned. A value read is indeterminate and is
\* not recorded; an assignment lands outside the elements.
OutOfRangeOp ==
  /\ Running
  /\ node.cls \in VectorClasses
  /\ lastOp' = Op("index_out_of_range", <<>>, length(node))
  /\ raised' \in OutOfRangeOutcomes
  /\ UNCHANGED <<node, appended, writes>>

\* chain = new Selector_Combination(c, h, chain)
ConstructOp ==
  /\ Running
  /\ node.cls = "Selector_Combination"
  /\ ChainLength(node.chain) < MaxChain
  /\ \E c \in ChainCombinators, h \in Heads, ur \in BOOLEAN, up \in BOOLEAN :
       /\ node' = [node EXCEPT
                     !.chain = <<Selector_Combination(c, h, node.chain, ur, up)>>]
       /\ lastOp' = Op("construct", <<c, h, node.chain>>, 0)
  /\ raised' = "none"
  /\ UNCHANGED <<appended, writes>>

\* object = new Parameter(path, line, n, def, rest); the constructor body
\* is a comment: nothing is checked and nothing raised.
ConstructParameterOp ==
  /\ Running
  /\ node.cls = "Parameter"
  /\ node.object = NULL
  /\ \E p \in ParameterObjects :
       /\ node' = [node EXCEPT !.object = <<p>>]
       /\ lastOp' = Op("construct", <<p>>, 0)
  /\ raised' = "none"
  /\ UNCHANGED <<appended, writes>>

\* object = new Argument(path, line, val, n, rest); the constructor tests
\* name_ != "" && is_rest_argument_ and does nothing in that case.
ConstructArgumentOp ==
  /\ Running
  /\ node.cls = "Argument"
  /\ node.object = NULL
  /\ \E a \in ArgumentObjects :
       /\ node' = [node EXCEPT !.object = <<a>>]
       /\ lastOp' = Op("construct", <<a>>, 0)
  /\ raised' = "none"
  /\ UNCHANGED <<appended, writes>>

Next ==
  \/ AppendOp
  \/ ExtendOp
  \/ SelfExtendOp
  \/ ReadOp
  \/ WriteOp
  \/ OutOfRangeOp
  \/ ConstructOp
  \/ ConstructParameterOp
  \/ ConstructArgumentOp

Spec == Init /\ [][Next]_vars

(***************************************************************************)
(* Properties.                                                             *)
(***************************************************************************)
IsVector == node.cls \in VectorClasses

\* C1: elements appended to an initially empty vector are read back by
\* length() and operator[] in append order: length() is the number of
\* appends and S[i] is the (i+1)-th appended element.
C1_ReadOrderIsAppendOrder ==
  (IsVector /\ writes = 0) =>
     /\ length(node) = Len(appended)
     /\ \A i \in 0..(Len(appended) - 1) : At(node, i) = appended[i + 1]

C1_Witness ==
  /\ IsVector /\ writes = 0 /\ lastOp.op = "append"
  /\ Len(appended) = MaxLen
  /\ appended[1] # appended[2]

\* Appending the elements of a vector one at a time, first to last.
RECURSIVE AppendEach(_, _)
AppendEach(n, s) ==
  IF s = <<>> THEN n ELSE AppendEach(PushBack(n, Head(s)), Tail(s))

\* C2: A += B leaves A (elements and flags) as appending B's elements one by
\* one in B's order does, and runs A's hook once per element of B, in order.
C2_ExtendIsAppendEach ==
  [][lastOp'.op = "extend" =>
       /\ node' = AppendEach(node, lastOp'.args)
       /\ node'.elements = node.elements \o lastOp'.args
       /\ node'.hooked = node.hooked \o lastOp'.args]_vars

C2_Witness ==
  /\ IsVector /\ lastOp.op = "extend"
  /\ Len(lastOp.args) = 2 /\ lastOp.args[1] # lastOp.args[2]
  /\ length(node) > 2

ContainsHoistable(elems) == \E i \in 1..Len(elems) : is_hoistable(elems[i])

ContainsNonHoistable(elems) == \E i \in 1..Len(elems) : ~is_hoistable(elems[i])

\* C3 as claimed: in every reachable state of a Block, has_hoistable is true
\* if the block contains a Ruleset and false if it contains none.
C3_EveryState ==
  node.cls = "Block" => (node.has_hoistable = ContainsHoistable(node.elements))

\* C3 as amended: in every state of a Block reached by append and extend
\* alone (no element assigned through operator[]), has_hoistable is true if
\* the block contains a Ruleset and false if it contains none.
C3_AppendOnly ==
  (node.cls = "Block" /\ writes = 0) =>
     (node.has_hoistable = ContainsHoistable(node.elements))

C3_Witness ==
  /\ node.cls = "Block" /\ writes = 0
  /\ ContainsHoistable(node.elements) /\ ContainsNonHoistable(node.elements)
  /\ ~is_hoistable(node.elements[Len(node.elements)])

\* C4: has_hoistable and has_non_hoistable are independent OR-accumulators:
\* has_non_hoistable is true once a non-hoistable statement was appended,
\* has_hoistable is true exactly if a hoistable one was.
C4_IndependentAccumulators ==
  node.cls = "Block" =>
     /\ node.has_non_hoistable = ContainsNonHoistable(appended)
     /\ node.has_hoistable = ContainsHoistable(appended)

\* The simple selectors a simple selector holds: itself and, through
\* Negated_Selector, the selector it wraps.
RECURSIVE SimpleHolds(_, _)
SimpleHolds(s, flag) ==
  s[flag] \/ (s.selector # NULL /\ SimpleHolds(s.selector[1], flag))

SequenceHolds(q, flag) ==
  \E i \in 1..Len(q.elements) : SimpleHolds(q.elements[i], flag)

RECURSIVE ChainHolds(_, _)
ChainHolds(c, flag) ==
  \/ c.head # NULL /\ SequenceHolds(c.head[1], flag)
  \/ c.tail # NULL /\ ChainHolds(c.tail[1], flag)

NodeHolds(n, flag) ==
  IF n.cls = "Simple_Selector_Sequence"
  THEN SequenceHolds(n, flag)
  ELSE \E i \in 1..Len(n.elements) : ChainHolds(n.elements[i], flag)

\* C5: the flags of a Simple_Selector_Sequence and of a Selector_Group built
\* by appends are the OR of the flags of all simple selectors they hold,
\* directly or through Negated_Selector, heads and tails.
C5_FlagsAreTransitiveOr ==
  (node.cls \in {"Simple_Selector_Sequence", "Selector_Group"} /\ writes = 0) =>
     /\ has_reference(node) = NodeHolds(node, "has_reference")
     /\ has_placeholder(node) = NodeHolds(node, "has_placeholder")

PointeeFlag(ptr, flag) == ptr # NULL /\ ptr[1][flag]

\* C6: a Selector_Combination exposes the head and tail it was built with,
\* and its own has_reference and has_placeholder accessors return the OR of
\* the head's and the tail's flags.
C6_CombinationFlags ==
  (node.cls = "Selector_Combination" /\ lastOp.op = "construct") =>
     LET c == node.chain[1]
         h == lastOp.args[2]
         t == lastOp.args[3]
     IN /\ c.head = h /\ c.tail = t
        /\ has_reference(c) =
             (PointeeFlag(h, "has_reference") \/ PointeeFlag(t, "has_reference"))
        /\ has_placeholder(c) =
             (PointeeFlag(h, "has_placeholder") \/ PointeeFlag(t, "has_placeholder"))

GrowingOps == {"append", "extend", "self_extend"}

IsOrderedList == node.cls \in {"Parameters", "Arguments"}

OrderingViolation ==
  IF node.cls = "Parameters"
  THEN "ParameterOrderingViolation"
  ELSE "ArgumentOrderingViolation"

\* The elements that set has_rest_parameter / has_rest_argument.
IsRest(e) ==
  IF node.cls = "Parameters"
  THEN default_value(e) = NULL /\ is_rest_parameter(e)
  ELSE name(e) = "" /\ is_rest_argument(e)

\* The elements appended before the last one.
Earlier == SubSeq(appended, 1, Len(appended) - 1)

RestIsLast(elems) == \A i \in 1..(Len(elems) - 1) : ~IsRest(elems[i])

\* C7: once a rest element was appended to Parameters or Arguments, every
\* later append raises the ordering violation, so a rest element is always
\* the last element of the list.
C7_RestIsTerminal ==
  IsOrderedList =>
     /\ (lastOp.op = "append" /\ ~RestIsLast(appended)) =>
           raised = OrderingViolation
     /\ writes = 0 => RestIsLast(node.elements)

IsOptionalParam(p) == default_value(p) # NULL

IsRequiredParam(p) == default_value(p) = NULL /\ ~is_rest_parameter(p)

\* C8: appending a required parameter to Parameters that already holds an
\* optional one raises ParameterOrderingViolation.
C8_RequiredAfterOptionalRejected ==
  (/\ node.cls = "Parameters" /\ lastOp.op = "append"
   /\ IsRequiredParam(lastOp.args[1])
   /\ \E i \in 1..Len(Earlier) : IsOptionalParam(Earlier[i])) =>
     raised = "ParameterOrderingViolation"

IsNamedArg(a) == name(a) # ""

IsPositionalArg(a) == name(a) = "" /\ ~is_rest_argument(a)

\* C9: appending a positional argument to Arguments that already holds a
\* named one raises ArgumentOrderingViolation; (positional, positional),
\* (positional, named) and (positional, rest) raise nothing.
C9_PositionalAfterNamedRejected ==
  node.cls = "Arguments" =>
     /\ (/\ lastOp.op = "append" /\ IsPositionalArg(lastOp.args[1])
         /\ \E i \in 1..Len(Earlier) : IsNamedArg(Earlier[i])) =>
           raised = "ArgumentOrderingViolation"
     /\ (/\ lastOp.op \in GrowingOps
         /\ appended \in {<<PositionalArg, PositionalArg>>,
                          <<PositionalArg, NamedArg>>,
                          <<PositionalArg, RestArg>>}) => raised = "none"

AcceptedParameterLists ==
  {<<RequiredParam, RequiredParam>>,
   <<RequiredParam, OptionalParam>>,
   <<RequiredParam, OptionalParam, RestParam>>}

HasRestFlag(n) ==
  IF n.cls = "Parameters" THEN n.has_rest_parameter ELSE n.has_rest_argument

\* has_optional_parameters / has_named_arguments
HasOptionalFlag(n) ==
  IF n.cls = "Parameters" THEN n.has_optional_parameters ELSE n.has_named_arguments

SetsOptionalFlag(e) ==
  IF node.cls = "Parameters" THEN IsOptionalParam(e) ELSE IsNamedArg(e)

\* C11: appending a rest element to Parameters that hold an optional
\* parameter, or to Arguments that hold a named argument, raises the
\* ordering violation; the rest flag and the optional/named flag are never
\* both true.
C11_RestConflictsWithOptional ==
  IsOrderedList =>
     /\ (/\ lastOp.op = "append" /\ IsRest(lastOp.args[1])
         /\ \E i \in 1..Len(Earlier) : SetsOptionalFlag(Earlier[i])) =>
           raised = OrderingViolation
     /\ ~(HasRestFlag(node) /\ HasOptionalFlag(node))

\* C12: constructing an Argument with a non-empty name and the rest flag
\* raises ArgumentOrderingViolation; no such Argument object ever exists.
C12_NoNamedRestArgument ==
  (node.cls = "Argument" /\ lastOp.op = "construct") =>
     /\ (name(lastOp.args[1]) # "" /\ is_rest_argument(lastOp.args[1])) =>
           raised = "ArgumentOrderingViolation"
     /\ ~(name(node.object[1]) # "" /\ is_rest_argument(node.object[1]))

\* C13: constructing a Parameter with a default value and the rest flag
\* raises InvalidParameterDefault; no such Parameter object ever exists.
C13_NoDefaultedRestParameter ==
  (node.cls = "Parameter" /\ lastOp.op = "construct") =>
     /\ (/\ default_value(lastOp.args[1]) # NULL
         /\ is_rest_parameter(lastOp.args[1])) =>
           raised = "InvalidParameterDefault"
     /\ ~(/\ default_value(node.object[1]) # NULL
          /\ is_rest_parameter(node.object[1]))

\* C14: operator[] with an index >= length() fails with IndexOutOfRange and
\* neither returns nor modifies an element; indexed access succeeds only
\* for an index < length().
C14_OutOfRangeFails ==
  IsVector =>
     /\ lastOp.op = "index_out_of_range" => raised = "IndexOutOfRange"
     /\ (lastOp.op \in {"read", "write"} /\ raised = "none") =>
           lastOp.idx < length(node)

\* C15: over append, extend, indexed read and indexed write the length
\* never decreases: append adds 1, extend adds the length of the other
\* vector, read and write add nothing; no element is removed or moved.
C15_LengthOnlyGrows ==
  [][IsVector =>
       LET op == lastOp'.op
           old == node.elements
           new == node'.elements
       IN /\ op = "append" => Len(new) = Len(old) + 1
          /\ op = "extend" => Len(new) = Len(old) + Len(lastOp'.args)
          /\ op = "self_extend" => Len(new) = Len(old) + Len(old)
          /\ op \in {"read", "write"} => Len(new) = Len(old)
          /\ op \in GrowingOps \cup {"read"} =>
               \A i \in 1..Len(old) : new[i] = old[i]
          /\ op = "write" =>
               \A i \in 1..Len(old) : i # lastOp'.idx + 1 => new[i] = old[i]]_vars

C15_Witness ==
  /\ IsVector /\ lastOp.op = "read" /\ writes = 1
  /\ length(node) = MaxLen /\ lastOp.idx = MaxLen - 1
  /\ node.elements # appended

\* The derived flags of a node.
DerivedFlags(n) ==
  CASE n.cls = "Block" -> <<n.has_hoistable, n.has_non_hoistable>>
    [] n.cls = "Parameters" -> <<n.has_optional_parameters, n.has_rest_parameter>>
    [] n.cls = "Arguments" -> <<n.has_named_arguments, n.has_rest_argument>>
    [] n.cls = "Simple_Selector_Sequence" -> <<n.has_reference, n.has_placeholder>>
    [] n.cls = "Selector_Group" ->
         <<n.has_reference, n.has_placeholder,
           n.Selector_has_reference, n.Selector_has_placeholder>>

\* C16: an assignment through operator[] replaces the element at its index
\* and does not run the hook, so every derived flag of the node is left
\* as it was; the hook runs only from append and extend.
C16_WriteSkipsHook ==
  [][IsVector =>
       /\ lastOp'.op = "write" =>
            /\ At(node', lastOp'.idx) = lastOp'.args[1]
            /\ node'.hooked = node.hooked
            /\ DerivedFlags(node') = DerivedFlags(node)
       /\ node'.hooked # node.hooked => lastOp'.op \in GrowingOps]_vars

C16_Witness ==
  /\ node.cls = "Block" /\ lastOp.op = "write"
  /\ node.has_hoistable /\ ~ContainsHoistable(node.elements)

\* C17: A += A ends after appending exactly the L elements A held before:
\* A then has length 2L, its second half repeats its first half in order,
\* and the hook ran exactly L times.
C17_SelfExtendDoubles ==
  [][(IsVector /\ lastOp'.op = "self_extend") =>
       LET L == length(node) IN
       /\ length(node') = 2 * L
       /\ \A i \in 0..(L - 1) :
            /\ At(node', i) = At(node, i)
            /\ At(node', L + i) = At(node, i)
       /\ Len(node'.hooked) = Len(node.hooked) + L
       /\ node'.hooked = node.hooked \o node.elements]_vars

C17_Witness ==
  /\ IsVector /\ lastOp.op = "self_extend"
  /\ length(node) = 4
  /\ At(node, 0) # At(node, 1)

====
